---- MODULE Spec2Model ----
(***************************************************************************)
(* ElasticHashMap<K, V, Hasher> (src/ElasticHashMap.hpp): a fixed-capacity *)
(* open-addressing map made of several subarrays that are probed in        *)
(* construction order.  Keys and values are small integers, size_t is      *)
(* scaled down to SizeBits bits.                                           *)
(***************************************************************************)
EXTENDS Integers, Sequences, FiniteSets, TLC

\* ---------------------------------------------------------------- bounds
MaxKey == 3              \* the caller uses the keys 0 .. MaxKey-1
MaxValue == 1            \* the caller writes the values 0 .. MaxValue
MaxTotalCapacity == 8    \* largest totalCapacity requested in Spec
MaxRequested == 17       \* largest totalCapacity requested in SpecCtor
FullFill == 6            \* keys loaded before the run in SpecFull
ThresholdFill == 9       \* keys loaded before the run in SpecThreshold
TightFill == 13          \* keys loaded before the run in SpecTight
SizeBits == 4            \* width of size_t in the model

\* ------------------------------------------------------ program constants
MinCapacity == 8         \* "if (totalCapacity < 8) totalCapacity = 8"
ProbeLimit == 16         \* std::min<size_t>(16, subcap)
ThresholdCapacity == 20  \* totalCapacity of the map of SpecThreshold
WrapCapacity == 12       \* totalCapacity of the fresh map of SpecWrap

DefaultK == 0            \* K{} for an integer key
DefaultV == 0            \* V{} for an integer value

Min(a, b) == IF a < b THEN a ELSE b
Max(a, b) == IF a > b THEN a ELSE b

SizeMod == 2 ^ SizeBits
Keys == 0 .. (MaxKey - 1)
Values == 0 .. MaxValue
MaxFill == Max(Max(FullFill, ThresholdFill), TightFill)
AllKeys == 0 .. (MaxKey + MaxFill - 1)
NoVal == MaxValue + 1     \* "no value": not a value any caller writes
NoSlot == <<0, 0>>
NoRef == [key |-> DefaultK, sub |-> 0, idx |-> 0]

\* ------------------------------------------------------------ Slot, Subarray
\* Slot() : occupied(false) {}
EmptySlot == [occupied |-> FALSE, key |-> DefaultK, value |-> DefaultV]

\* Slot(k, v) : occupied(true), key(k), value(v) {}
FullSlot(k, v) == [occupied |-> TRUE, key |-> k, value |-> v]

\* Subarray(cap) : size(0), capacity(cap) { slots.resize(cap); }
Subarray(cap) ==
    [slots |-> [i \in 0 .. (cap - 1) |-> EmptySlot], size |-> 0, capacity |-> cap]

\* ------------------------------------------------------------- constructor
\* One iteration of "while (remaining > 0)": the capacity of the next subarray.
SubCap(remaining) ==
    LET half == Max(1, remaining \div 2)
    IN  IF half < 4 /\ remaining < 4 THEN remaining ELSE half

RECURSIVE BuildSubarrays(_)
BuildSubarrays(remaining) ==
    IF remaining > 0
    THEN <<Subarray(SubCap(remaining))>> \o BuildSubarrays(remaining - SubCap(remaining))
    ELSE <<>>

\* The constructor without the minimum of 8.
ElasticHashMapCtorNoFloor(totalCapacity) == BuildSubarrays(totalCapacity)

ElasticHashMapCtor(totalCapacity) ==
    BuildSubarrays(IF totalCapacity < MinCapacity THEN MinCapacity ELSE totalCapacity)

\* ------------------------------------------------------------------ probing
\* size_t idx = (hashVal + probe) % subcap, with size_t arithmetic
ProbeIdx(hashVal, probe, subcap) == ((hashVal + probe) % SizeMod) % subcap

MaxProbes(subcap) == Min(ProbeLimit, subcap)

\* ----------------------------------------------------------------- findSlot
\* findSlot that gives up on the first slot that holds another key.
FindProbeFirstOnly(sub, hashVal, key, probe) ==
    LET idx == ProbeIdx(hashVal, probe, sub.capacity)
    IN  IF sub.slots[idx].occupied /\ sub.slots[idx].key = key THEN idx ELSE -1

\* findSlot that compares the key before it looks at the occupied flag.
RECURSIVE FindProbeKeyFirst(_, _, _, _)
FindProbeKeyFirst(sub, hashVal, key, probe) ==
    IF probe < MaxProbes(sub.capacity)
    THEN LET idx == ProbeIdx(hashVal, probe, sub.capacity)
         IN  IF sub.slots[idx].key = key
             THEN idx
             ELSE IF ~sub.slots[idx].occupied
                  THEN -1
                  ELSE FindProbeKeyFirst(sub, hashVal, key, probe + 1)
    ELSE -1

\* The inner for loop of findSlot on one subarray: the index found, or -1.
RECURSIVE FindProbe(_, _, _, _)
FindProbe(sub, hashVal, key, probe) ==
    IF probe < MaxProbes(sub.capacity)
    THEN LET idx == ProbeIdx(hashVal, probe, sub.capacity)
         IN  IF ~sub.slots[idx].occupied
             THEN -1
             ELSE IF sub.slots[idx].occupied /\ sub.slots[idx].key = key
                  THEN idx
                  ELSE FindProbe(sub, hashVal, key, probe + 1)
    ELSE -1

\* The outer loop of findSlot from subarray i on.
RECURSIVE FindFrom(_, _, _, _)
FindFrom(subs, hasher, key, i) ==
    IF i > Len(subs)
    THEN NoSlot
    ELSE LET idx == FindProbe(subs[i], hasher[key], key, 0)
         IN  IF idx # -1 THEN <<i, idx>> ELSE FindFrom(subs, hasher, key, i + 1)

\* ---------------------------------------------------------------- tryUpdate
\* tryUpdate that counts an update as one more stored item.
UpdateFromCounting(subs, hasher, key, val, i) ==
    LET s == FindFrom(subs, hasher, key, 1)
    IN  IF s = NoSlot
        THEN [updated |-> FALSE, subs |-> subs]
        ELSE [updated |-> TRUE,
              subs |-> [subs EXCEPT ![s[1]].slots[s[2]].value = val,
                                    ![s[1]].size = subs[s[1]].size + 1]]

\* tryUpdate that gives up on the first slot that holds another key.
UpdateProbeFirstOnly(sub, hashVal, key, probe) ==
    LET idx == ProbeIdx(hashVal, probe, sub.capacity)
    IN  IF sub.slots[idx].occupied /\ sub.slots[idx].key = key THEN idx ELSE -1

\* The inner for loop of tryUpdate on one subarray: the index updated, or -1.
RECURSIVE UpdateProbe(_, _, _, _)
UpdateProbe(sub, hashVal, key, probe) ==
    IF probe < MaxProbes(sub.capacity)
    THEN LET idx == ProbeIdx(hashVal, probe, sub.capacity)
         IN  IF sub.slots[idx].occupied
             THEN IF sub.slots[idx].key = key
                  THEN idx
                  ELSE UpdateProbe(sub, hashVal, key, probe + 1)
             ELSE -1
    ELSE -1

RECURSIVE UpdateFrom(_, _, _, _, _)
UpdateFrom(subs, hasher, key, val, i) ==
    IF i > Len(subs)
    THEN [updated |-> FALSE, subs |-> subs]
    ELSE LET idx == UpdateProbe(subs[i], hasher[key], key, 0)
         IN  IF idx # -1
             THEN [updated |-> TRUE,
                   subs |-> [subs EXCEPT ![i].slots[idx].value = val]]
             ELSE UpdateFrom(subs, hasher, key, val, i + 1)

tryUpdate(subs, hasher, key, val) == UpdateFrom(subs, hasher, key, val, 1)

\* ----------------------------------------------------------------- doInsert
\* doInsert that forgets sub.size++.
RECURSIVE InsertProbeNoCount(_, _, _, _, _)
InsertProbeNoCount(sub, hashVal, key, val, probe) ==
    IF probe < MaxProbes(sub.capacity)
    THEN LET idx == ProbeIdx(hashVal, probe, sub.capacity)
         IN  IF ~sub.slots[idx].occupied
             THEN [placed |-> TRUE,
                   sub |-> [sub EXCEPT !.slots[idx] = FullSlot(key, val)]]
             ELSE IF sub.slots[idx].key = key
                  THEN [placed |-> TRUE,
                        sub |-> [sub EXCEPT !.slots[idx].value = val]]
                  ELSE InsertProbeNoCount(sub, hashVal, key, val, probe + 1)
    ELSE [placed |-> FALSE, sub |-> sub]

\* doInsert that takes the first slot it probes, occupied or not.
InsertProbeEvict(sub, hashVal, key, val, probe) ==
    LET idx == ProbeIdx(hashVal, probe, sub.capacity)
    IN  [placed |-> TRUE,
         sub |-> [sub EXCEPT !.slots[idx] = FullSlot(key, val),
                             !.size = IF sub.slots[idx].occupied
                                      THEN sub.size ELSE (sub.size + 1) % SizeMod]]

\* The inner for loop of doInsert on one subarray.
RECURSIVE InsertProbe(_, _, _, _, _)
InsertProbe(sub, hashVal, key, val, probe) ==
    IF probe < MaxProbes(sub.capacity)
    THEN LET idx == ProbeIdx(hashVal, probe, sub.capacity)
         IN  IF ~sub.slots[idx].occupied
             THEN [placed |-> TRUE,
                   sub |-> [sub EXCEPT !.slots[idx] = FullSlot(key, val),
                                       !.size = (sub.size + 1) % SizeMod]]
             ELSE IF sub.slots[idx].key = key
                  THEN [placed |-> TRUE,
                        sub |-> [sub EXCEPT !.slots[idx].value = val]]
                  ELSE InsertProbe(sub, hashVal, key, val, probe + 1)
    ELSE [placed |-> FALSE, sub |-> sub]

\* The admission test that only asks for a free slot.
BelowCapacity(sub) == sub.size < sub.capacity

\* The admission test with <= for <.
BelowThresholdInclusive(sub) == sub.size * 10 <= sub.capacity * 9

\* if (sub.size * 10 < sub.capacity * 9)
BelowThreshold(sub) == sub.size * 10 < sub.capacity * 9

RECURSIVE InsertFrom(_, _, _, _, _)
InsertFrom(subs, hasher, key, val, i) ==
    IF i > Len(subs)
    THEN [thrown |-> TRUE, subs |-> subs]
    ELSE IF BelowThreshold(subs[i])
         THEN LET r == InsertProbe(subs[i], hasher[key], key, val, 0)
              IN  IF r.placed
                  THEN [thrown |-> FALSE, subs |-> [subs EXCEPT ![i] = r.sub]]
                  ELSE InsertFrom(subs, hasher, key, val, i + 1)
         ELSE InsertFrom(subs, hasher, key, val, i + 1)

doInsert(subs, hasher, key, val) == InsertFrom(subs, hasher, key, val, 1)

\* ----------------------------------------------------------------- findSlot
\* A lookup that inserts a default entry for a key it does not find.
findSlotInserting(subs, hasher, key) ==
    LET s == FindFrom(subs, hasher, key, 1)
    IN  [subs |-> IF s = NoSlot THEN doInsert(subs, hasher, key, DefaultV).subs ELSE subs,
         slot |-> s]

\* Slot* findSlot(const K& key): a non-const member; the map it leaves behind
\* and the slot it points to (NoSlot for nullptr).
findSlot(subs, hasher, key) ==
    [subs |-> subs, slot |-> FindFrom(subs, hasher, key, 1)]

\* bool count(const K& key) { return (findSlot(key) != nullptr); }
count(subs, hasher, key) ==
    LET f == findSlot(subs, hasher, key)
    IN  [subs |-> f.subs, result |-> f.slot # NoSlot]

\* ----------------------------------------------------------- insertOrUpdate
\* insertOrUpdate that swallows the error of doInsert.
insertOrUpdateSilent(subs, hasher, key, val) ==
    LET u == tryUpdate(subs, hasher, key, val)
    IN  IF u.updated
        THEN [thrown |-> FALSE, subs |-> u.subs]
        ELSE [thrown |-> FALSE, subs |-> doInsert(u.subs, hasher, key, val).subs]

\* insertOrUpdate that inserts without looking for the key first.
insertOrUpdateNoUpdate(subs, hasher, key, val) == doInsert(subs, hasher, key, val)

insertOrUpdate(subs, hasher, key, val) ==
    LET u == tryUpdate(subs, hasher, key, val)
    IN  IF u.updated
        THEN [thrown |-> FALSE, subs |-> u.subs]
        ELSE doInsert(u.subs, hasher, key, val)

\* --------------------------------------------------------------- operator[]
\* operator[] whose default value is not value-initialised.
operatorIndexJunkDefault(subs, hasher, key, dflt) ==
    LET f1 == findSlot(subs, hasher, key)
    IN  IF f1.slot # NoSlot
        THEN [outcome |-> "ok", subs |-> f1.subs, slot |-> f1.slot]
        ELSE LET ins == insertOrUpdate(f1.subs, hasher, key, MaxValue)
             IN  IF ins.thrown
                 THEN [outcome |-> "CapacityExhausted", subs |-> ins.subs, slot |-> NoSlot]
                 ELSE [outcome |-> "ok", subs |-> ins.subs,
                       slot |-> findSlot(ins.subs, hasher, key).slot]

operatorIndex(subs, hasher, key, dflt) ==
    LET f1 == findSlot(subs, hasher, key)
    IN  IF f1.slot # NoSlot
        THEN [outcome |-> "ok", subs |-> f1.subs, slot |-> f1.slot]
        ELSE LET ins == insertOrUpdate(f1.subs, hasher, key, dflt)
             IN  IF ins.thrown
                 THEN [outcome |-> "CapacityExhausted", subs |-> ins.subs, slot |-> NoSlot]
                 ELSE LET f2 == findSlot(ins.subs, hasher, key)
                      IN  IF f2.slot = NoSlot
                          THEN [outcome |-> "InvariantViolation",
                                subs |-> f2.subs, slot |-> NoSlot]
                          ELSE [outcome |-> "ok", subs |-> f2.subs, slot |-> f2.slot]

\* -------------------------------------------------------------------- state
VARIABLES
    subarrays,    \* std::vector<Subarray> subarrays
    m_hasher,     \* Hasher m_hasher, a pure function of the key
    defaultVal,   \* static V defaultVal{} of operator[]
    requested,    \* the constructor's argument totalCapacity
    heldRef,      \* the V& the caller holds from the last operator[] that returned
    outcome,      \* how the last call ended
    written,      \* per key, the value most recently written by a call that returned
    calls,        \* per thread, the insertOrUpdate it is executing and where it is
    raced         \* TRUE once a thread has stepped while the other was inside a call

vars == <<subarrays, m_hasher, defaultVal, requested, heldRef, outcome, written,
          calls, raced>>

\* The threads that call into the map without mutual exclusion.
Threads == {"t1", "t2"}

\* A thread that is not inside a call.
IdleCall == [pc |-> "idle", key |-> DefaultK, val |-> DefaultV,
             sub |-> 0, probe |-> 0, idx |-> 0, loaded |-> 0, claimed |-> FALSE]

\* The hash functions the map is instantiated with.
IdentityHash == [k \in AllKeys |-> k % SizeMod]
ConstantHash == [k \in AllKeys |-> 0]
HighHash == [k \in AllKeys |-> (SizeMod - 1 - k) % SizeMod]
Hashers == {IdentityHash, ConstantHash, HighHash}
\* Every key hashes to SIZE_MAX, as std::hash<int> does for the key -1.
TopHash == [k \in AllKeys |-> SizeMod - 1]

\* The map after insertOrUpdate(k, DefaultV) for k = first .. last, in order.
RECURSIVE Load(_, _, _, _)
Load(subs, hasher, first, last) ==
    IF first > last
    THEN subs
    ELSE Load(insertOrUpdate(subs, hasher, first, DefaultV).subs, hasher, first + 1, last)

InitWith(caps, hashers, fill) ==
    /\ requested \in caps
    /\ m_hasher \in hashers
    /\ subarrays = Load(ElasticHashMapCtor(requested), m_hasher, MaxKey, MaxKey + fill - 1)
    /\ defaultVal = DefaultV
    /\ heldRef = NoRef
    /\ outcome = "none"
    /\ written = [k \in AllKeys |->
                    IF k >= MaxKey /\ k < MaxKey + fill THEN DefaultV ELSE NoVal]
    /\ calls = [t \in Threads |-> IdleCall]
    /\ raced = FALSE

Init == InitWith(MinCapacity .. MaxTotalCapacity, Hashers, 0)

\* ------------------------------------------------------------------ actions
\* map.insertOrUpdate(key, val)
Put(key, val) ==
    LET r == insertOrUpdate(subarrays, m_hasher, key, val)
    IN  /\ subarrays' = r.subs
        /\ outcome' = IF r.thrown THEN "CapacityExhausted" ELSE "ok"
        /\ written' = IF r.thrown THEN written ELSE [written EXCEPT ![key] = val]
        /\ UNCHANGED <<m_hasher, defaultVal, requested, heldRef, calls, raced>>

\* V& ref = map[key]
Index(key) ==
    LET absent == findSlot(subarrays, m_hasher, key).slot = NoSlot
        r == operatorIndex(subarrays, m_hasher, key, defaultVal)
    IN  /\ subarrays' = r.subs
        /\ outcome' = r.outcome
        /\ heldRef' = IF r.outcome = "ok"
                      THEN [key |-> key, sub |-> r.slot[1], idx |-> r.slot[2]]
                      ELSE heldRef
        /\ written' = IF r.outcome = "ok" /\ absent
                      THEN [written EXCEPT ![key] = defaultVal]
                      ELSE written
        /\ UNCHANGED <<m_hasher, defaultVal, requested, calls, raced>>

\* ref = val, through the reference the caller holds
WriteRef(val) ==
    /\ heldRef # NoRef
    /\ subarrays' = [subarrays EXCEPT ![heldRef.sub].slots[heldRef.idx].value = val]
    /\ outcome' = "ok"
    /\ written' = [written EXCEPT ![heldRef.key] = val]
    /\ UNCHANGED <<m_hasher, defaultVal, requested, heldRef, calls, raced>>

\* map.count(key)
Count(key) ==
    LET c == count(subarrays, m_hasher, key)
    IN  /\ subarrays' = c.subs
        /\ outcome' = IF c.result THEN "true" ELSE "false"
        /\ UNCHANGED <<m_hasher, defaultVal, requested, heldRef, written, calls, raced>>

DoPut == \E key \in Keys, val \in Values : Put(key, val)
DoIndex == \E key \in Keys : Index(key)
DoWriteRef == \E val \in Values : WriteRef(val)
DoCount == \E key \in Keys : Count(key)

Next == DoPut \/ DoIndex \/ DoWriteRef \/ DoCount

Spec == Init /\ [][Next]_vars

\* A map of the minimum capacity that already holds FullFill keys: the caller's
\* keys run it out of slots.
InitFull == InitWith({MinCapacity}, Hashers, FullFill)

SpecFull == InitFull /\ [][Next]_vars

\* A map whose first subarray has ten slots and is at the fill threshold.
InitThreshold == InitWith({ThresholdCapacity}, {IdentityHash}, ThresholdFill)

SpecThreshold == InitThreshold /\ [][Next]_vars

\* The constructor applied to every totalCapacity up to MaxRequested, followed
\* by the operations on the map it built.
InitCtor ==
    /\ requested \in 0 .. MaxRequested
    /\ m_hasher = IdentityHash
    /\ subarrays = <<>>
    /\ defaultVal = DefaultV
    /\ heldRef = NoRef
    /\ outcome = "none"
    /\ written = [k \in AllKeys |-> NoVal]
    /\ calls = [t \in Threads |-> IdleCall]
    /\ raced = FALSE

\* ElasticHashMap map(requested)
Construct ==
    /\ subarrays = <<>>
    /\ subarrays' = ElasticHashMapCtor(requested)
    /\ UNCHANGED <<m_hasher, defaultVal, requested, heldRef, outcome, written,
                   calls, raced>>

NextCtor == Construct \/ (subarrays # <<>> /\ Next)

SpecCtor == InitCtor /\ [][NextCtor]_vars

\* A map whose first subarray has ten slots and is at the fill threshold, and
\* whose second subarray has one empty slot left.
InitTight == InitWith({ThresholdCapacity}, {IdentityHash}, TightFill)

SpecTight == InitTight /\ [][Next]_vars

\* Maps with a subarray whose capacity does not divide 2^SizeBits, under a hash
\* at the top of size_t: hashVal + probe overflows.  One map is fresh, the other
\* has its first two subarrays full.
InitWrap ==
    \/ InitWith({WrapCapacity}, {TopHash}, 0)
    \/ InitWith({MinCapacity + 1}, {TopHash}, FullFill)

SpecWrap == InitWrap /\ [][Next]_vars

\* ------------------------------------------------------------ racing Puts
\* Two threads run insertOrUpdate on one map with no lock; doInsert is taken
\* apart into its reads and writes of the shared slots and sizes.
Busy(t) == calls[t].pc \notin {"idle", "returned", "thrown"}

\* A step of thread t: it races when another thread is inside a call.
Step(t, call) ==
    /\ calls' = [calls EXCEPT ![t] = call]
    /\ raced' = (raced \/ \E o \in Threads \ {t} : Busy(o))
    /\ UNCHANGED <<m_hasher, defaultVal, requested, heldRef, outcome, written>>

\* The store of sub.size++: the value loaded, plus one.
IncrementedSizeStuck(loaded) == loaded

IncrementedSize(loaded) == (loaded + 1) % SizeMod

\* thread t enters insertOrUpdate(key, val)
Call(t, key, val) ==
    /\ calls[t].pc = "idle"
    /\ Step(t, [calls[t] EXCEPT !.pc = "tryUpdate", !.key = key, !.val = val])
    /\ UNCHANGED subarrays

\* if (tryUpdate(key, val)) return;
TryUpdateStep(t) ==
    /\ calls[t].pc = "tryUpdate"
    /\ LET u == tryUpdate(subarrays, m_hasher, calls[t].key, calls[t].val)
       IN  /\ subarrays' = u.subs
           /\ Step(t, [calls[t] EXCEPT !.pc = IF u.updated THEN "returned" ELSE "admit",
                                       !.sub = 1])

\* for (auto& sub : subarrays) if (sub.size * 10 < sub.capacity * 9)
Admit(t) ==
    /\ calls[t].pc = "admit"
    /\ UNCHANGED subarrays
    /\ IF calls[t].sub > Len(subarrays)
       THEN Step(t, [calls[t] EXCEPT !.pc = "thrown"])
       ELSE IF BelowThreshold(subarrays[calls[t].sub])
            THEN Step(t, [calls[t] EXCEPT !.pc = "probe", !.probe = 0])
            ELSE Step(t, [calls[t] EXCEPT !.sub = @ + 1])

\* for (probe ...) { idx = ...; if (!occupied) ... else if (key == key) ... }
Probe(t) ==
    /\ calls[t].pc = "probe"
    /\ UNCHANGED subarrays
    /\ LET sub == subarrays[calls[t].sub]
           idx == ProbeIdx(m_hasher[calls[t].key], calls[t].probe, sub.capacity)
       IN  IF calls[t].probe >= MaxProbes(sub.capacity)
           THEN Step(t, [calls[t] EXCEPT !.pc = "admit", !.sub = @ + 1])
           ELSE IF ~sub.slots[idx].occupied
                THEN Step(t, [calls[t] EXCEPT !.pc = "occupied", !.idx = idx])
                ELSE IF sub.slots[idx].key = calls[t].key
                     THEN Step(t, [calls[t] EXCEPT !.pc = "duplicate", !.idx = idx])
                     ELSE Step(t, [calls[t] EXCEPT !.probe = @ + 1])

\* sub.slots[idx].occupied = true;
WriteOccupied(t) ==
    /\ calls[t].pc = "occupied"
    /\ subarrays' = [subarrays EXCEPT ![calls[t].sub].slots[calls[t].idx].occupied = TRUE]
    /\ Step(t, [calls[t] EXCEPT !.pc = "key", !.claimed = TRUE])

\* sub.slots[idx].key = key;
WriteKey(t) ==
    /\ calls[t].pc = "key"
    /\ subarrays' = [subarrays EXCEPT ![calls[t].sub].slots[calls[t].idx].key = calls[t].key]
    /\ Step(t, [calls[t] EXCEPT !.pc = "value"])

\* sub.slots[idx].value = val;  (line 174)
WriteValue(t) ==
    /\ calls[t].pc = "value"
    /\ subarrays' = [subarrays EXCEPT ![calls[t].sub].slots[calls[t].idx].value = calls[t].val]
    /\ Step(t, [calls[t] EXCEPT !.pc = "loadSize"])

\* sub.slots[idx].value = val; return;  (line 180, the duplicate-key branch)
WriteDuplicate(t) ==
    /\ calls[t].pc = "duplicate"
    /\ subarrays' = [subarrays EXCEPT ![calls[t].sub].slots[calls[t].idx].value = calls[t].val]
    /\ Step(t, [calls[t] EXCEPT !.pc = "returned"])

\* sub.size++, the load
LoadSize(t) ==
    /\ calls[t].pc = "loadSize"
    /\ UNCHANGED subarrays
    /\ Step(t, [calls[t] EXCEPT !.pc = "storeSize",
                                !.loaded = subarrays[calls[t].sub].size])

\* sub.size++, the store; return;
StoreSize(t) ==
    /\ calls[t].pc = "storeSize"
    /\ subarrays' = [subarrays EXCEPT ![calls[t].sub].size = IncrementedSize(calls[t].loaded)]
    /\ Step(t, [calls[t] EXCEPT !.pc = "returned"])

DoCall == \E t \in Threads, key \in Keys, val \in Values : Call(t, key, val)
DoTryUpdateStep == \E t \in Threads : TryUpdateStep(t)
DoAdmit == \E t \in Threads : Admit(t)
DoProbe == \E t \in Threads : Probe(t)
DoWriteOccupied == \E t \in Threads : WriteOccupied(t)
DoWriteKey == \E t \in Threads : WriteKey(t)
DoWriteValue == \E t \in Threads : WriteValue(t)
DoWriteDuplicate == \E t \in Threads : WriteDuplicate(t)
DoLoadSize == \E t \in Threads : LoadSize(t)
DoStoreSize == \E t \in Threads : StoreSize(t)

NextRace ==
    \/ DoCall \/ DoTryUpdateStep \/ DoAdmit \/ DoProbe \/ DoWriteOccupied
    \/ DoWriteKey \/ DoWriteValue \/ DoWriteDuplicate \/ DoLoadSize \/ DoStoreSize

\* A map of the minimum capacity that holds FullFill keys, and two threads.
SpecRace == InitFull /\ [][NextRace]_vars

\* ------------------------------------------------------------- observations
\* Contains(key) on the map subs
Contains(subs, key) == count(subs, m_hasher, key).result

\* The value a lookup of key returns on the map subs, NoVal when it finds none.
LookupVal(subs, key) ==
    LET s == findSlot(subs, m_hasher, key).slot
    IN  IF s = NoSlot THEN NoVal ELSE subs[s[1]].slots[s[2]].value

RECURSIVE SumCapacity(_)
SumCapacity(subs) ==
    IF subs = <<>> THEN 0 ELSE Head(subs).capacity + SumCapacity(Tail(subs))

\* Every subarray is at or above the fill threshold.
AllAtThreshold == \A i \in 1 .. Len(subarrays) : ~BelowThreshold(subarrays[i])

\* --------------------------------------------------------------------- C1
\* C1: every key for which a Put or an indexed access has returned normally is
\* contained in the map in every later state, and a lookup of it returns the
\* value most recently written for it.
NoLossAfterInsert ==
    \A k \in AllKeys :
        written[k] # NoVal =>
            Contains(subarrays, k) /\ LookupVal(subarrays, k) = written[k]

\* A caller's key that was overwritten and lives behind a full first subarray.
NoLossWitness ==
    \E k \in Keys :
        /\ written[k] = MaxValue
        /\ findSlot(subarrays, m_hasher, k).slot[1] > 1
        /\ LookupVal(subarrays, k) = MaxValue

\* --------------------------------------------------------------------- C2
\* C2: a Put that cannot place its key raises the error and leaves every slot
\* and every size as it was; a Put that returns normally leaves its key in the
\* map.
FailureSignaledAndAtomic ==
    [][\A key \in Keys, val \in Values :
         Put(key, val) =>
            /\ outcome' = "CapacityExhausted" => subarrays' = subarrays
            /\ outcome' = "ok" => Contains(subarrays', key)
            /\ outcome' \in {"ok", "CapacityExhausted"}]_vars

\* A Put has failed on a full map that still holds every value written.
FailureWitness ==
    /\ outcome = "CapacityExhausted"
    /\ AllAtThreshold
    /\ \E k \in Keys : written[k] = NoVal /\ ~Contains(subarrays, k)
    /\ \E k \in Keys : written[k] = MaxValue /\ LookupVal(subarrays, k) = MaxValue

\* --------------------------------------------------------------------- C3
\* C3: the capacities of the subarrays the constructor builds sum to
\* max(totalCapacity, 8), and no later operation changes the sum.
CapacityConservation ==
    subarrays # <<>> => SumCapacity(subarrays) = Max(requested, MinCapacity)

\* A map requested below the minimum that has stored a key since.
CapacityWitness ==
    /\ subarrays # <<>>
    /\ requested < MinCapacity
    /\ \E i \in 1 .. Len(subarrays) : subarrays[i].size > 0

\* --------------------------------------------------------------------- C4
\* C4: the subarrays are in decreasing order of capacity: each one is at least
\* as large as the one that follows it.
RegionOrdering ==
    \A i \in 1 .. (Len(subarrays) - 1) :
        subarrays[i].capacity >= subarrays[i + 1].capacity

\* --------------------------------------------------------------------- C5
\* C5: from every reachable state, Put(K, V) twice in a row gives the same
\* slots, the same sizes and the same outcome as Put(K, V) once.
IdempotentPut ==
    \A key \in Keys, val \in Values :
        LET once == insertOrUpdate(subarrays, m_hasher, key, val)
            twice == insertOrUpdate(once.subs, m_hasher, key, val)
        IN  /\ twice.subs = once.subs
            /\ twice.thrown = once.thrown

\* A Put has acted, and a key that is absent would be placed behind the first
\* subarray by the next one.
IdempotentWitness ==
    /\ outcome = "ok"
    /\ \E k \in Keys :
          /\ ~Contains(subarrays, k)
          /\ LET once == insertOrUpdate(subarrays, m_hasher, k, MaxValue)
             IN  ~once.thrown /\ findSlot(once.subs, m_hasher, k).slot[1] > 1

\* --------------------------------------------------------------------- C6
\* C6: no step decreases the size of a subarray, and no size exceeds its
\* subarray's capacity.
MonotonicOccupancy ==
    [][/\ Len(subarrays') = Len(subarrays)
       /\ \A i \in 1 .. Len(subarrays) :
             /\ subarrays[i].size <= subarrays[i].capacity
             /\ subarrays'[i].size >= subarrays[i].size
             /\ subarrays'[i].size <= subarrays'[i].capacity]_vars

\* Every subarray has grown to its capacity.
OccupancyWitness ==
    \A i \in 1 .. Len(subarrays) : subarrays[i].size = subarrays[i].capacity

\* --------------------------------------------------------------------- C7
\* C7: no step occupies a slot of a subarray that was at or above the 90%
\* threshold (size * 10 >= capacity * 9) before the step.
FillThresholdRespect ==
    [][\A i \in 1 .. Len(subarrays) :
          \A idx \in 0 .. (subarrays[i].capacity - 1) :
              (~subarrays[i].slots[idx].occupied /\ subarrays'[i].slots[idx].occupied)
                  => subarrays[i].size * 10 < subarrays[i].capacity * 9]_vars

\* A caller's key was placed behind the first subarray although the first
\* subarray, at the threshold, has an empty slot on the key's probe sequence.
ThresholdWitness ==
    \E k \in Keys :
        /\ written[k] # NoVal
        /\ findSlot(subarrays, m_hasher, k).slot[1] > 1
        /\ subarrays[1].size * 10 >= subarrays[1].capacity * 9
        /\ \E probe \in 0 .. (MaxProbes(subarrays[1].capacity) - 1) :
              ~subarrays[1].slots[ProbeIdx(m_hasher[k], probe, subarrays[1].capacity)].occupied

\* --------------------------------------------------------------------- C8
\* C8: operator[] on an absent key that can be placed returns a reference to a
\* stored value equal to V{}, the key is contained afterwards and no other
\* key's value changes; operator[] on a present key returns a reference to its
\* stored value and changes no slot and no size.
IndexedAccess ==
    [][\A key \in Keys :
         Index(key) =>
            IF Contains(subarrays, key)
            THEN /\ outcome' = "ok"
                 /\ subarrays' = subarrays
                 /\ heldRef'.key = key
                 /\ subarrays'[heldRef'.sub].slots[heldRef'.idx].value
                       = LookupVal(subarrays, key)
            ELSE outcome' = "ok" =>
                 /\ heldRef'.key = key
                 /\ subarrays'[heldRef'.sub].slots[heldRef'.idx].value = DefaultV
                 /\ subarrays'[heldRef'.sub].slots[heldRef'.idx].key = key
                 /\ Contains(subarrays', key)
                 /\ \A other \in AllKeys \ {key} :
                       LookupVal(subarrays', other) = LookupVal(subarrays, other)]_vars

\* The caller holds the reference to a default entry that operator[] created
\* after another key's value had been written through an earlier reference.
IndexedAccessWitness ==
    /\ heldRef # NoRef
    /\ outcome = "ok"
    /\ written[heldRef.key] = DefaultV
    /\ subarrays[heldRef.sub].slots[heldRef.idx].value = DefaultV
    /\ \E other \in Keys \ {heldRef.key} : LookupVal(subarrays, other) = MaxValue

\* --------------------------------------------------------------------- C9
\* C9: Put(K, V) on a present key returns normally, also when every subarray
\* is at or above the threshold, and changes nothing but the value of K's slot.
UpdateInPlace ==
    [][\A key \in Keys, val \in Values :
         (Put(key, val) /\ Contains(subarrays, key)) =>
            LET s == findSlot(subarrays, m_hasher, key).slot
            IN  /\ outcome' = "ok"
                /\ subarrays' = [subarrays EXCEPT ![s[1]].slots[s[2]].value = val]]_vars

\* A present key holds an overwritten value in a map that takes no new key.
UpdateWitness ==
    /\ AllAtThreshold
    /\ outcome = "ok"
    /\ \E k \in Keys : ~Contains(subarrays, k)
    /\ \E k \in Keys : Contains(subarrays, k) /\ LookupVal(subarrays, k) = MaxValue

\* -------------------------------------------------------------------- C10
\* C10: count(key) changes no slot, no size and no capacity.
LookupNoSideEffects ==
    [][\A key \in Keys : Count(key) => subarrays' = subarrays]_vars

\* count has returned true and false on maps that hold keys.
LookupWitness ==
    /\ outcome \in {"true", "false"}
    /\ \E k \in Keys : Contains(subarrays, k)
    /\ \E k \in Keys : ~Contains(subarrays, k)

\* -------------------------------------------------------------------- C11
\* C11: a Put of an absent key fails exactly when every subarray is at or above
\* the threshold or has every slot (hash(K) + p) mod capacity, p < min(16,
\* capacity), occupied; in every other state it succeeds.
ExactFailureCondition ==
    [][\A key \in Keys, val \in Values :
         (Put(key, val) /\ ~Contains(subarrays, key)) =>
            (outcome' = "CapacityExhausted" <=>
                \A i \in 1 .. Len(subarrays) :
                    \/ subarrays[i].size * 10 >= subarrays[i].capacity * 9
                    \/ \A p \in 0 .. (Min(16, subarrays[i].capacity) - 1) :
                          subarrays[i].slots[(m_hasher[key] + p)
                                               % subarrays[i].capacity].occupied)]_vars

\* -------------------------------------------------------------------- C12
\* C12: a successful insertion of an absent key writes exactly the slot at the
\* smallest p < min(16, capacity) with (hash(K) + p) mod capacity empty, in the
\* first subarray that is below the threshold and has such a slot; that
\* subarray's size grows by 1 and nothing else changes.
PlacementAndCascade ==
    [][\A key \in Keys, val \in Values :
         (Put(key, val) /\ ~Contains(subarrays, key) /\ outcome' = "ok") =>
            LET Free(i) == {p \in 0 .. (Min(16, subarrays[i].capacity) - 1) :
                              ~subarrays[i].slots[(m_hasher[key] + p)
                                                    % subarrays[i].capacity].occupied}
                Open == {i \in 1 .. Len(subarrays) :
                            subarrays[i].size * 10 < subarrays[i].capacity * 9
                            /\ Free(i) # {}}
            IN  /\ Open # {}
                /\ LET i == CHOOSE x \in Open : \A y \in Open : x <= y
                       p == CHOOSE x \in Free(i) : \A y \in Free(i) : x <= y
                       idx == (m_hasher[key] + p) % subarrays[i].capacity
                   IN  subarrays' =
                          [subarrays EXCEPT ![i].slots[idx] = FullSlot(key, val),
                                            ![i].size = subarrays[i].size + 1]]_vars

\* -------------------------------------------------------------------- C14
\* C14: every stored key K sits at index (hash(K) + p) mod capacity of its
\* subarray for some p < min(16, capacity), and the slots at the probe
\* positions 0 .. p-1 of K in that subarray are occupied.
ChainInvariant ==
    \A i \in 1 .. Len(subarrays) :
        \A idx \in 0 .. (subarrays[i].capacity - 1) :
            subarrays[i].slots[idx].occupied =>
                LET h == m_hasher[subarrays[i].slots[idx].key]
                    cap == subarrays[i].capacity
                IN  \E p \in 0 .. (Min(16, cap) - 1) :
                        /\ (h + p) % cap = idx
                        /\ \A q \in 0 .. (p - 1) : subarrays[i].slots[(h + q) % cap].occupied

\* -------------------------------------------------------------------- C13
\* C13: in every reachable state the size of each subarray is the number of
\* its slots whose occupied flag is set.
SizeBookkeeping ==
    \A i \in 1 .. Len(subarrays) :
        subarrays[i].size =
            Cardinality({idx \in 0 .. (subarrays[i].capacity - 1) :
                            subarrays[i].slots[idx].occupied})

\* A subarray that the caller's insertions have filled in part.
SizeWitness ==
    /\ outcome = "ok"
    /\ \E k \in Keys :
          LET s == findSlot(subarrays, m_hasher, k).slot
          IN  /\ s # NoSlot
              /\ subarrays[s[1]].size > 0
              /\ subarrays[s[1]].size < subarrays[s[1]].capacity

\* -------------------------------------------------------------------- C15
\* C15: an occupied slot stays occupied and keeps its key; its value changes
\* only in a Put of that key or in a write through the reference that operator[]
\* returned for that key.
SlotPermanence ==
    [][\A i \in 1 .. Len(subarrays) :
          \A idx \in 0 .. (subarrays[i].capacity - 1) :
              subarrays[i].slots[idx].occupied =>
                  /\ subarrays'[i].slots[idx].occupied
                  /\ subarrays'[i].slots[idx].key = subarrays[i].slots[idx].key
                  /\ subarrays'[i].slots[idx].value # subarrays[i].slots[idx].value =>
                        \/ \E val \in Values : Put(subarrays[i].slots[idx].key, val)
                        \/ /\ \E val \in Values : WriteRef(val)
                           /\ heldRef = [key |-> subarrays[i].slots[idx].key,
                                         sub |-> i, idx |-> idx]]_vars

\* The value of a slot was overwritten through the reference the caller holds.
PermanenceWitness ==
    /\ heldRef # NoRef
    /\ subarrays[heldRef.sub].slots[heldRef.idx].occupied
    /\ subarrays[heldRef.sub].slots[heldRef.idx].key = heldRef.key
    /\ subarrays[heldRef.sub].slots[heldRef.idx].value = MaxValue
    /\ written[heldRef.key] = MaxValue

\* -------------------------------------------------------------------- C16
\* C16: operator[] ends with a reference or with the capacity error, never with
\* "insertion unexpectedly failed": when its insert returns, the second lookup
\* finds the key.
NoInvariantViolation ==
    [][\A key \in Keys :
         Index(key) =>
            /\ outcome' \in {"ok", "CapacityExhausted"}
            /\ outcome' = "ok" => findSlot(subarrays', m_hasher, key).slot # NoSlot
            /\ outcome' = "CapacityExhausted" =>
                  insertOrUpdate(subarrays, m_hasher, key, defaultVal).thrown]_vars

\* operator[] has inserted a default entry behind the first subarray, and a
\* later call ran out of capacity.
IndexInsertWitness ==
    /\ outcome = "CapacityExhausted"
    /\ heldRef # NoRef
    /\ heldRef.sub > 1
    /\ written[heldRef.key] # NoVal

\* -------------------------------------------------------------------- C18
\* C18: no key is stored in more than one occupied slot, and a Put whose
\* tryUpdate finds nothing and whose doInsert returns claims an empty slot: it
\* never takes the duplicate-key branch of doInsert.
KeyUniqueness ==
    [][LET Occupied(subs) ==
               UNION {{<<i, idx>> : idx \in {j \in 0 .. (subs[i].capacity - 1) :
                                               subs[i].slots[j].occupied}} :
                      i \in 1 .. Len(subs)}
           before == Occupied(subarrays)
           after == Occupied(subarrays')
       IN  /\ Cardinality({subarrays[s[1]].slots[s[2]].key : s \in before}) =
                 Cardinality(before)
           /\ Cardinality({subarrays'[s[1]].slots[s[2]].key : s \in after}) =
                 Cardinality(after)
           /\ \A key \in Keys, val \in Values :
                 (/\ outcome' = "ok"
                  /\ written'[key] = val
                  /\ ~tryUpdate(subarrays, m_hasher, key, val).updated
                  /\ Put(key, val))
                 => Cardinality(after) = Cardinality(before) + 1]_vars

\* Two keys with the same hash are both stored, and one of them was overwritten.
UniquenessWitness ==
    \E k1 \in Keys, k2 \in Keys :
        /\ k1 # k2
        /\ m_hasher[k1] = m_hasher[k2]
        /\ Contains(subarrays, k1)
        /\ Contains(subarrays, k2)
        /\ written[k2] = MaxValue
        /\ LookupVal(subarrays, k1) = DefaultV

\* -------------------------------------------------------------------- C19
\* C19: count(K) is true only for keys for which a Put or an operator[] has
\* returned normally; a fresh map contains no key, K{} included.
NoPhantomKeys ==
    \A k \in AllKeys : Contains(subarrays, k) => written[k] # NoVal

\* count has returned false on a fresh map, whose empty slots hold K{}.
FreshMapWitness ==
    /\ outcome = "false"
    /\ \A k \in AllKeys : written[k] = NoVal
    /\ \A i \in 1 .. Len(subarrays) :
          \A idx \in 0 .. (subarrays[i].capacity - 1) :
              ~subarrays[i].slots[idx].occupied /\ subarrays[i].slots[idx].key = DefaultK

\* -------------------------------------------------------------------- C20
\* C20: every subarray with size > 0 satisfies (size - 1) * 10 < capacity * 9;
\* a subarray of capacity 10 or more always keeps an empty slot, a smaller one
\* can become full.
TightFillBound ==
    \A i \in 1 .. Len(subarrays) :
        /\ subarrays[i].size > 0 => (subarrays[i].size - 1) * 10 < subarrays[i].capacity * 9
        /\ subarrays[i].capacity >= 10 =>
              /\ subarrays[i].size < subarrays[i].capacity
              /\ \E idx \in 0 .. (subarrays[i].capacity - 1) :
                    ~subarrays[i].slots[idx].occupied

\* A subarray of ten slots holds nine keys, and a caller's key has filled the
\* last slot of a subarray of fewer than ten.
TightWitness ==
    /\ \E i \in 1 .. Len(subarrays) :
          subarrays[i].capacity >= 10 /\ subarrays[i].size = subarrays[i].capacity - 1
    /\ \E k \in Keys :
          LET s == findSlot(subarrays, m_hasher, k).slot
          IN  /\ s # NoSlot
              /\ subarrays[s[1]].capacity < 10
              /\ subarrays[s[1]].size = subarrays[s[1]].capacity

\* -------------------------------------------------------------------- C17
\* C17: two Puts that interleave their slot reads and writes can leave a
\* subarray whose size differs from its number of occupied slots, or a key
\* whose Put returned but which count does not find.  Checked as: when both
\* calls are over and neither stepped while the other was inside its call, the
\* map has neither defect; the witness is the bad state a race reaches.
SizeMismatch ==
    \E i \in 1 .. Len(subarrays) :
        subarrays[i].size #
            Cardinality({idx \in 0 .. (subarrays[i].capacity - 1) :
                            subarrays[i].slots[idx].occupied})

LostKey ==
    \E t \in Threads : calls[t].pc = "returned" /\ ~Contains(subarrays, calls[t].key)

BothOver == \A t \in Threads : calls[t].pc \in {"returned", "thrown"}

OnlyRacesBreak == (BothOver /\ ~raced) => (~SizeMismatch /\ ~LostKey)

\* Both Puts returned normally after claiming the same slot: the size counts a
\* slot too many and one of the two keys is gone.
RaceBadState ==
    /\ \A t \in Threads : calls[t].pc = "returned" /\ calls[t].claimed
    /\ raced
    /\ SizeMismatch
    /\ LostKey

====
